---- MODULE Spec2Model ----
(***************************************************************************)
(* ICT log maker (src/src/main.rs): a timer-driven generator that builds a *)
(* multiboard of simulated test results and writes one log file per board. *)
(*                                                                         *)
(* Time is an integer count of clock ticks, TicksPerSec ticks to a second; *)
(* chrono's DateTime has sub-second resolution while the "%y%m%d%H%M%S"    *)
(* rendering has one-second resolution.  The clock is monotone and the     *)
(* time zone fixed.  f32 limits and measurements are points of an integer  *)
(* lattice 0..MaxLimit.  A text line is the sequence of its '|' separated  *)
(* fields, a file's text the sequence of its lines with the "\n" tokens    *)
(* that join() puts between them.                                          *)
(***************************************************************************)
EXTENDS Integers, Sequences, FiniteSets, TLC

VARIABLES
    enabled,        \* MyApp.enabled
    test_yield,     \* MyApp.test_yield
    panels,         \* MyApp.panels
    testing_time,   \* MyApp.testing_time (seconds)
    start_time,     \* MyApp.start_time (rendered timestamp)
    last_export,    \* MyApp.last_export (ticks)
    last_id,        \* MyApp.last_id (u16)
    tests,          \* MyApp.tests
    multiboard,     \* MyApp.multiboard
    now,            \* the wall clock, Local::now() (ticks)
    fs,             \* the std::fs::write calls that succeeded since the
                    \* observation began, in order
    pc,             \* position of the process inside update()
    save_now,       \* save_results: local `now`
    start_t,        \* save_results: local `start_t`
    bi,             \* save_results: boards already iterated over
    t_update,       \* the clock when the running update() was entered
    horizon         \* the clock value at which the observation ends

vars == <<enabled, test_yield, panels, testing_time, start_time, last_export,
          last_id, tests, multiboard, now, fs, pc, save_now, start_t,
          bi, t_update, horizon>>

----------------------------------------------------------------------------
(* Bounds of the model *)

\* clock ticks per second
TicksPerSec == 2
\* clock ticks a behaviour covers
MaxTicks == 22
\* a call of update() takes at most this many clock ticks
MaxCycleTicks == 1
\* a clock tick inside the loop of save_results falls after at most this
\* many boards
MaxLoopTickAt == 1
\* capacitor tests in the catalog of the scheduler specifications
CatalogCaps == 1
\* resistor tests in the catalog of the scheduler specifications
CatalogRes == 1
\* largest point of the lattice that stands for f32 values
MaxLimit == 3
\* longest catalog of the encoder specification
MaxTests == 2
\* seconds the run has lasted when the late-run observation starts
WrapUptime == 18000

(* Program constants *)

\* u16 holds 0 .. U16Mod - 1
U16Mod == 65536
DefaultYield == 99
DefaultPanels == 20
DefaultTestingTime == 30
DefaultLastId == 1
\* Slider::new(&mut self.panels, 1..=20)
SliderPanelsMin == 1
SliderPanelsMax == 20
\* Slider::new(&mut self.testing_time, 5..=60)
SliderTimeMin == 5
SliderTimeMax == 60
\* gen_range(0..100)
YieldRange == 100

----------------------------------------------------------------------------
(* Formatting *)

RECURSIVE Digits(_, _)
\* {n:0w}: decimal digits of n, zero-padded to at least w digits
Digits(n, w) ==
    IF n < 10 /\ w <= 1 THEN <<n>>
    ELSE Append(Digits(n \div 10, w - 1), n % 10)

RECURSIVE FromDigits(_)
\* the number a digit string reads as
FromDigits(ds) ==
    IF ds = <<>> THEN 0
    ELSE 10 * FromDigits(SubSeq(ds, 1, Len(ds) - 1)) + ds[Len(ds)]

\* DateTime::format("%y%m%d%H%M%S"): the instant cut to whole seconds
FormatTime(t) == t \div TicksPerSec

\* Duration::seconds(s)
Seconds(s) == s * TicksPerSec

\* Local::now().date_naive(): year and ordinal day of the instant
DateOf(t) ==
    LET day == t \div (86400 * TicksPerSec)
    IN  [YY |-> 2024 + (day \div 365), DoY |-> 1 + (day % 365)]

\* {:+E} of a non-negative f32
SignedSci(v) == <<"+", v, "E">>

----------------------------------------------------------------------------
(* Test catalog *)

Pin == [kind |-> "Pin"]
Capacitor(min, nom, max) == [kind |-> "Capacitor", min |-> min, nom |-> nom, max |-> max]
Resistor(min, nom, max) == [kind |-> "Resistor", min |-> min, nom |-> nom, max |-> max]

Test(name, ttype) == [name |-> name, ttype |-> ttype]

\* limits a catalog can hold: populate_tests draws nominal > 0, min a
\* fraction below it and max a fraction above
Limits ==
    {l \in (1..MaxLimit) \X (1..MaxLimit) \X (1..MaxLimit) : l[1] < l[2] /\ l[2] < l[3]}

\* format!("c{i:02.0}")
TestName(prefix, i) == <<prefix>> \o Digits(i, 2)

\* the catalog: one pin test, ncap capacitor tests, nres resistor tests;
\* cl and rl give each analog test's drawn limits
populate_tests(ncap, nres, cl, rl) ==
    <<Test(<<"pins">>, Pin)>>
    \o [i \in 1..ncap |-> Test(TestName("c", i), Capacitor(cl[i][1], cl[i][2], cl[i][3]))]
    \o [i \in 1..nres |-> Test(TestName("r", i), Resistor(rl[i][1], rl[i][2], rl[i][3]))]

----------------------------------------------------------------------------
(* Measurement simulation *)

\* rng.gen_range(lo..hi): the values of the half-open range [lo, hi)
gen_range(lo, hi) == lo..(hi - 1)

\* get_measurement with the branches of `if is_ok` exchanged
get_measurement_swapped(test, is_ok) ==
    IF test.ttype.kind = "Pin" THEN {0}
    ELSE IF is_ok THEN gen_range(0, test.ttype.min)
    ELSE gen_range(test.ttype.min, test.ttype.max)

\* Test::get_measurement: the values the call can return
get_measurement(test, is_ok) ==
    IF test.ttype.kind = "Pin" THEN {0}
    ELSE IF is_ok THEN gen_range(test.ttype.min, test.ttype.max)
    ELSE gen_range(0, test.ttype.min)

\* MyApp::should_pass, for the drawn integer d of gen_range(0..100)
should_pass(d, yield) == d < yield

TResult(ok, measured) == [ok |-> ok, measured |-> measured]

\* TResult::to_short
to_short(res) == IF res.ok THEN "0" ELSE "1"

\* TResult::to_str
to_str(res) == IF res.ok THEN "00" ELSE "01"

\* MyApp::generate_results: the result lists the call can return for the
\* decision draws ds (one per test)
generate_results(ts, yield, ds) ==
    {rs \in [1..Len(ts) -> [ok : BOOLEAN, measured : 0..MaxLimit]] :
        \A k \in 1..Len(ts) :
            /\ rs[k].ok = should_pass(ds[k], yield)
            /\ rs[k].measured \in get_measurement(ts[k], rs[k].ok)}

Board(DMC, index, results) == [DMC |-> DMC, index |-> index, results |-> results]

\* the status of the last result alone
get_result_last(results, k) ==
    IF Len(results) = 0 \/ results[Len(results)].ok THEN "00" ELSE "01"

RECURSIVE get_result_from(_, _)
\* Board::get_result, the loop from the k-th result on
get_result_from(results, k) ==
    IF k > Len(results) THEN "00"
    ELSE IF ~results[k].ok THEN "01"
    ELSE get_result_from(results, k + 1)

\* Board::get_result
get_result(board) == get_result_from(board.results, 1)

----------------------------------------------------------------------------
(* Identifiers and panel assembly *)

\* u16 + u16 in a build without overflow checks
Add16(a, b) == (a + b) % U16Mod

\* u16 + u16 overflows (a panic in a build with overflow checks)
Overflows16(a, b) == a + b >= U16Mod

\* the board's position passed as its sequence offset
board_offset_position(i) == i + 1

\* the sequence offset generate_multiboard passes for the board pushed in
\* loop iteration i (0-based); the board's index is i + 1
board_offset(i) == i

\* MyApp::generate_DMC at instant t
generate_DMC(id, index, t) ==
    <<"L", Digits(DateOf(t).YY, 4), Digits(DateOf(t).DoY, 3),
      Digits(Add16(id, index), 5), "TB0001010111">>

\* the sequence value an identifier carries
SeqOf(dmc) == FromDigits(dmc[4])

\* MyApp::generate_multiboard with n boards pushed; R[i] are the results
\* generate_results returned for the i-th board
generate_multiboard(id, n, t, R) ==
    [DMC |-> generate_DMC(id, 0, t),
     boards |-> [i \in 1..n |-> Board(generate_DMC(id, board_offset(i - 1), t), i, R[i])]]

\* loop iterations of generate_multiboard that run before generate_DMC
\* overflows, when overflow panics
pushed_before_panic(id, n) ==
    Cardinality({i \in 0..(n - 1) : ~Overflows16(id, board_offset(i))})

----------------------------------------------------------------------------
(* Log encoding *)

\* generate_filename with the time rendered to the minute ("%y%m%d%H%M")
generate_filename_minutes(time_now, index) ==
    <<Digits(index, 1), "-", FormatTime(time_now) \div 60, "I3070CE0101BZ01">>

\* MyApp::generate_filename
generate_filename(time_now, index) ==
    <<Digits(index, 1), "-", FormatTime(time_now), "I3070CE0101BZ01">>

\* the {@BATCH record
batch_line(batch_start) ==
    <<"{@BATCH", "DUMMY", "", "0101", "1", "", "btest", batch_start, "",
      "i30704CE0101BZ01", "DUMMY", "RevA", "DUMMY", "", "D">>

\* the {@BTEST record
btest_line(board, start, t, panel_dmc) ==
    <<"{@BTEST", board.DMC, get_result(board), start, "000000", "0", "all", "",
      "n", "n", FormatTime(t), "", Digits(board.index, 2), panel_dmc>>

\* the records of one test: the body of generate_log's loop
test_block(test, result, index) ==
    IF test.ttype.kind = "Pin" THEN
        << <<"{@PF", <<Digits(index, 1), "%pins">>, to_short(result), "0">>,
           <<"}">> >>
    ELSE
        << <<"{@BLOCK", <<Digits(index, 1), "%", test.name>>, to_str(result)>>,
           <<(IF test.ttype.kind = "Capacitor" THEN "{@A-CAP" ELSE "{@A-RES"),
             to_short(result),
             <<SignedSci(result.measured), "{@LIM3">>,
             SignedSci(test.ttype.nom), SignedSci(test.ttype.max),
             <<SignedSci(test.ttype.min), "}}">> >>,
           <<"}">> >>

RECURSIVE zip_blocks(_, _, _, _)
\* the records of tests.iter().zip(board.results.iter()) from pair k on
zip_blocks(ts, rs, index, k) ==
    IF k > Len(ts) \/ k > Len(rs) THEN <<>>
    ELSE test_block(ts[k], rs[k], index) \o zip_blocks(ts, rs, index, k + 1)

\* the `lines` vector of generate_log
log_lines(ts, board, start, batch_start, t, panel_dmc) ==
    <<batch_line(batch_start), btest_line(board, start, t, panel_dmc)>>
    \o zip_blocks(ts, board.results, board.index, 1)
    \o << <<"}}">> >>

\* the token lines.join("\n") puts between two lines
NL == <<"\n">>

RECURSIVE join_trailing(_)
\* every line followed by "\n", the last one too
join_trailing(lines) ==
    IF Len(lines) = 0 THEN <<>>
    ELSE <<lines[1], NL>> \o join_trailing(Tail(lines))

RECURSIVE join(_)
\* lines.join("\n")
join(lines) ==
    IF Len(lines) = 0 THEN <<>>
    ELSE IF Len(lines) = 1 THEN <<lines[1]>>
    ELSE <<lines[1], NL>> \o join(Tail(lines))

\* MyApp::generate_log rendered at instant t
generate_log(ts, board, start, batch_start, t, panel_dmc) ==
    join(log_lines(ts, board, start, batch_start, t, panel_dmc))

----------------------------------------------------------------------------
(* The scheduler: eframe calls update() once per frame *)

\* its_time firing as soon as the interval has elapsed
its_time_at_interval(t) == enabled /\ (t - last_export >= Seconds(testing_time))

\* MyApp::its_time with Local::now() = t
its_time(t) == enabled /\ (t - last_export > Seconds(testing_time))

\* values the "Panels on MB" slider is moved to
PanelInputs == {SliderPanelsMin, 5, SliderPanelsMax}

\* values the "Test time" slider is moved to
TimeInputs == {SliderTimeMin}

\* decision draws of a cycle of the scheduler specifications: 0 passes
\* every test, 99 fails every test at the default yield
CycleDraws == {0, YieldRange - 1}

\* the least value of a non-empty set of numbers
Least(S) == CHOOSE x \in S : \A y \in S : x <= y

\* result lists of a cycle of the scheduler specifications: every test
\* decided by the draw d, every measurement the least the range yields
cycle_results(d) ==
    {rs \in generate_results(tests, test_yield, [k \in 1..Len(tests) |-> d]) :
        \A k \in 1..Len(tests) :
            rs[k].measured = Least(get_measurement(tests[k], rs[k].ok))}

\* the empty MultiBoard::default()
EmptyMultiboard == [DMC |-> <<>>, boards |-> <<>>]

\* impl Default for MyApp: last_export is read from the clock at t0 and
\* start_time at t1, the next expression evaluated
Construct(t0, t1) ==
    /\ enabled = FALSE
    /\ test_yield = DefaultYield
    /\ panels = DefaultPanels
    /\ testing_time = DefaultTestingTime
    /\ last_export = t0
    /\ start_time = FormatTime(t1)
    /\ last_id = DefaultLastId
    /\ multiboard = EmptyMultiboard
    /\ now = t1
    /\ fs = <<>>
    /\ pc = "idle"
    /\ save_now = 0
    /\ start_t = 0
    /\ bi = 0
    /\ t_update = t1
    /\ horizon = t1 + MaxTicks

\* limits of the analog tests in the scheduler specifications
SchedulerLimits == <<1, 2, 3>>

Init ==
    /\ \E t1 \in {TicksPerSec - 1, TicksPerSec} : Construct(TicksPerSec - 1, t1)
    /\ tests = populate_tests(CatalogCaps, CatalogRes,
                              [i \in 1..CatalogCaps |-> SchedulerLimits],
                              [i \in 1..CatalogRes |-> SchedulerLimits])

\* the clock advances; a call of update() takes at most MaxCycleTicks
Tick ==
    /\ pc # "dead"
    /\ now < horizon
    /\ pc = "idle" \/ now - t_update < MaxCycleTicks
    /\ pc = "write" => bi <= MaxLoopTickAt
    /\ now' = now + 1
    /\ UNCHANGED <<enabled, test_yield, panels, testing_time, start_time,
                   last_export, last_id, tests, multiboard, fs, pc,
                   save_now, start_t, bi, t_update, horizon>>

\* update(): `if self.its_time()`
UpdateBegin ==
    /\ pc = "idle"
    /\ t_update' = now
    /\ pc' = IF its_time(now) THEN "generate" ELSE "ui"
    /\ UNCHANGED <<enabled, test_yield, panels, testing_time, start_time,
                   last_export, last_id, tests, multiboard, now, fs,
                   save_now, start_t, bi, horizon>>

\* update(): self.generate_multiboard(); a u16 overflow in generate_DMC
\* wraps in a build without overflow checks and panics in a build with
\* them, after the boards before it were pushed
Generate ==
    /\ pc = "generate"
    /\ \E d \in CycleDraws : \E rs \in cycle_results(d) :
        LET R == [i \in 1..panels |-> rs]
            n == pushed_before_panic(last_id, panels)
        IN  \/ /\ multiboard' = generate_multiboard(last_id, panels, now, R)
                /\ pc' = "save"
            \/ /\ n < panels
                /\ multiboard' = generate_multiboard(last_id, n, now, R)
                /\ pc' = "dead"
    /\ UNCHANGED <<enabled, test_yield, panels, testing_time, start_time,
                   last_export, last_id, tests, now, fs, save_now,
                   start_t, bi, t_update, horizon>>

\* the batch start time passed as the board's start time
save_start_t_batch == start_time

\* save_results(): `let start_t`
save_start_t == FormatTime(last_export)

\* save_results(): the two lets before the loop
SaveBegin ==
    /\ pc = "save"
    /\ save_now' = now
    /\ start_t' = save_start_t
    /\ bi' = 0
    /\ pc' = IF Len(multiboard.boards) = 0 THEN "update_fields" ELSE "write"
    /\ UNCHANGED <<enabled, test_yield, panels, testing_time, start_time,
                   last_export, last_id, tests, multiboard, now, fs,
                   t_update, horizon>>

\* the file std::fs::write creates for the board the loop is at
board_file(board) ==
    [path |-> generate_filename(save_now, board.index),
     text |-> generate_log(tests, board, start_t, start_time, now, multiboard.DMC)]

\* save_results(): one loop iteration whose std::fs::write succeeds
WriteBoard ==
    /\ pc = "write"
    /\ bi < Len(multiboard.boards)
    /\ fs' = Append(fs, board_file(multiboard.boards[bi + 1]))
    /\ bi' = bi + 1
    /\ pc' = IF bi + 1 = Len(multiboard.boards) THEN "update_fields" ELSE "write"
    /\ UNCHANGED <<enabled, test_yield, panels, testing_time, start_time,
                   last_export, last_id, tests, multiboard, now,
                   save_now, start_t, t_update, horizon>>

\* a failed std::fs::write that is skipped and the loop carried on
WriteFail_ignored ==
    /\ pc = "write"
    /\ bi < Len(multiboard.boards)
    /\ bi' = bi + 1
    /\ pc' = IF bi + 1 = Len(multiboard.boards) THEN "update_fields" ELSE "write"
    /\ UNCHANGED <<enabled, test_yield, panels, testing_time, start_time,
                   last_export, last_id, tests, multiboard, now, fs,
                   save_now, start_t, t_update, horizon>>

\* save_results(): std::fs::write fails, `?` returns the error and
\* expect() panics
WriteFail ==
    /\ pc = "write"
    /\ bi < Len(multiboard.boards)
    /\ pc' = "dead"
    /\ UNCHANGED <<enabled, test_yield, panels, testing_time, start_time,
                   last_export, last_id, tests, multiboard, now, fs,
                   save_now, start_t, bi, t_update, horizon>>

\* update(): self.update_fields(); last_export is assigned before the
\* addition, whose u16 overflow wraps in a build without overflow checks
\* and panics in a build with them
UpdateFields ==
    /\ pc = "update_fields"
    /\ last_export' = now
    /\ \/ /\ last_id' = Add16(last_id, panels)
          /\ pc' = "ui"
       \/ /\ Overflows16(last_id, panels)
          /\ pc' = "dead"
          /\ UNCHANGED last_id
    /\ UNCHANGED <<enabled, test_yield, panels, testing_time, start_time,
                   tests, multiboard, now, fs, save_now, start_t, bi,
                   t_update, horizon>>

\* update(): the central panel; the checkbox and the sliders write what
\* the user set
Ui ==
    /\ pc = "ui"
    /\ \E e \in BOOLEAN, p \in PanelInputs \cup {panels}, t \in TimeInputs \cup {testing_time} :
        /\ enabled' = e
        /\ panels' = p
        /\ testing_time' = t
    /\ pc' = "idle"
    /\ UNCHANGED <<test_yield, start_time, last_export, last_id, tests,
                   multiboard, now, fs, save_now, start_t, bi,
                   t_update, horizon>>

Next ==
    \/ Tick
    \/ UpdateBegin
    \/ Generate
    \/ SaveBegin
    \/ WriteBoard
    \/ WriteFail
    \/ UpdateFields
    \/ Ui

Spec == Init /\ [][Next]_vars

----------------------------------------------------------------------------
(* Late in a long run: the state right after update_fields of a cycle of   *)
(* 5 boards that left last_id at 65516 = 1 + 3275 * 20 + 3 * 5             *)

WrapInit ==
    /\ enabled = TRUE
    /\ test_yield = DefaultYield
    /\ panels = 5
    /\ testing_time = SliderTimeMin
    /\ start_time = 0
    /\ last_export = Seconds(WrapUptime)
    /\ last_id = U16Mod - DefaultPanels
    /\ tests = populate_tests(CatalogCaps, CatalogRes,
                              [i \in 1..CatalogCaps |-> SchedulerLimits],
                              [i \in 1..CatalogRes |-> SchedulerLimits])
    /\ \E rs \in cycle_results(0) :
        multiboard = generate_multiboard(U16Mod - DefaultPanels - 5, 5,
                                         Seconds(WrapUptime), [i \in 1..5 |-> rs])
    /\ now = Seconds(WrapUptime)
    /\ fs = <<>>
    /\ pc = "ui"
    /\ save_now = Seconds(WrapUptime)
    /\ start_t = WrapUptime - SliderTimeMin - 1
    /\ bi = 5
    /\ t_update = Seconds(WrapUptime)
    /\ horizon = Seconds(WrapUptime) + MaxTicks

SpecWrap == WrapInit /\ [][Next]_vars

----------------------------------------------------------------------------
(* The encoder on its own: any catalog, any yield, any draws *)

\* a catalog of the given kinds whose analog tests have the limits l
catalog_of(kinds, l) ==
    [k \in 1..Len(kinds) |->
        IF kinds[k] = "Pin" THEN Test(<<"pins">>, Pin)
        ELSE IF kinds[k] = "Capacitor" THEN Test(TestName("c", k), Capacitor(l[1], l[2], l[3]))
        ELSE Test(TestName("r", k), Resistor(l[1], l[2], l[3]))]

Catalogs ==
    UNION {{catalog_of(kinds, l) : kinds \in [1..n -> {"Pin", "Capacitor", "Resistor"}]} :
              <<n, l>> \in (0..MaxTests) \X Limits}

\* values of test_yield
YieldInputs == {0, 50, DefaultYield, YieldRange}

\* values gen_range(0..100) returns in should_pass
DecisionDraws == {0, 49, 50, YieldRange - 1}

EncInit ==
    /\ enabled = TRUE
    /\ test_yield \in YieldInputs
    /\ panels = 1
    /\ testing_time = DefaultTestingTime
    /\ start_time = 0
    /\ last_export = TicksPerSec
    /\ last_id = DefaultLastId
    /\ tests \in Catalogs
    /\ multiboard = EmptyMultiboard
    /\ now = Seconds(DefaultTestingTime) + TicksPerSec + 1
    /\ fs = <<>>
    /\ pc = "generate"
    /\ save_now = 0
    /\ start_t = 0
    /\ bi = 0
    /\ t_update = Seconds(DefaultTestingTime) + TicksPerSec + 1
    /\ horizon = Seconds(DefaultTestingTime) + TicksPerSec + 1

\* generate_multiboard with every draw the random generator can return
EncGenerate ==
    /\ pc = "generate"
    /\ \E ds \in [1..Len(tests) -> DecisionDraws] :
        \E rs \in generate_results(tests, test_yield, ds) :
            multiboard' = generate_multiboard(last_id, panels, now, [i \in 1..panels |-> rs])
    /\ pc' = "save"
    /\ UNCHANGED <<enabled, test_yield, panels, testing_time, start_time,
                   last_export, last_id, tests, now, fs, save_now, start_t,
                   bi, t_update, horizon>>

EncNext ==
    \/ EncGenerate
    \/ SaveBegin
    \/ WriteBoard

SpecEncode == EncInit /\ [][EncNext]_vars

----------------------------------------------------------------------------
(* Reading a written file back *)

\* the lines of a text: what stands between the "\n" tokens
LinesOf(text) == [k \in 1..((Len(text) + 1) \div 2) |-> text[2 * k - 1]]

\* the first line of a text that opens with the given token
LineOf(text, head) ==
    LET L == LinesOf(text)
    IN  L[CHOOSE k \in 1..Len(L) : L[k][1] = head /\ \A j \in 1..(k - 1) : L[j][1] # head]

\* the process is inside an export cycle, its panel built
InCycle == pc \in {"save", "write", "update_fields"}

----------------------------------------------------------------------------
(* Claims *)

\* C1: when update() is entered, an export cycle starts if and only if
\* enabled is set and the clock reads more than testing_time seconds past
\* last_export; otherwise the frame goes straight to the user interface.
\* A cycle starts nowhere else, and outside a cycle no panel is built, no
\* file is written and last_export and last_id do not change.
C1_FiresIffDue ==
    [][/\ (pc = "idle" /\ pc' # "idle") =>
            /\ pc' \in {"generate", "ui"}
            /\ (pc' = "generate") <=>
                   (enabled /\ now - last_export > testing_time * TicksPerSec)
       /\ (pc' = "generate" /\ pc # "generate") => (pc = "idle")
       /\ (pc \in {"idle", "ui", "dead"}) =>
            UNCHANGED <<multiboard, fs, last_export, last_id>>]_vars

\* C1 witness: a cycle has started on the first clock reading past the
\* interval
C1_Witness ==
    /\ pc = "generate"
    /\ enabled
    /\ t_update - last_export = testing_time * TicksPerSec + 1

\* C2 as stated: inside an export cycle the panel identifier carries
\* last_id and the board at position p carries last_id + p.
C2_BoardCarriesIdPlusPosition ==
    InCycle =>
        /\ SeqOf(multiboard.DMC) = last_id
        /\ \A p \in 1..Len(multiboard.boards) :
               SeqOf(multiboard.boards[p].DMC) = last_id + p

\* C2 amended: inside an export cycle the panel holds panels boards at
\* positions 1..panels, the panel identifier carries last_id and the board
\* at position p carries the 16-bit sum of last_id and p - 1, so that board
\* 1 carries the panel's own sequence value.
C2_BoardCarriesIdPlusPositionLessOne ==
    InCycle =>
        /\ SeqOf(multiboard.DMC) = last_id
        /\ Len(multiboard.boards) = panels
        /\ \A p \in 1..Len(multiboard.boards) :
               /\ multiboard.boards[p].index = p
               /\ SeqOf(multiboard.boards[p].DMC) = (last_id + p - 1) % 65536

\* C2 witness: from last_id 1 with 5 boards per panel, the second cycle's
\* boards carry 6..10
C2_Witness ==
    /\ pc = "write"
    /\ Len(fs) >= 5
    /\ last_id = 6
    /\ Len(multiboard.boards) = 5
    /\ {SeqOf(multiboard.boards[p].DMC) : p \in 1..5} = 6..10

\* C3 as stated: a completed export cycle sets last_export to the clock
\* and increases last_id by exactly panels, after every board file of the
\* cycle has been written.
C3_CycleAdvancesByPanels ==
    [][(pc = "update_fields" /\ pc' = "ui") =>
            /\ last_export' = now
            /\ last_id' = last_id + panels
            /\ bi = panels
            /\ Len(fs) >= panels]_vars

\* the sequence value of the board a written file is about
WrittenSeq(f) == SeqOf(LineOf(f.text, "{@BTEST")[2])

\* C4 as stated: last_id never decreases and no two board files written
\* carry the same sequence value.
C4_MonotoneNeverReused ==
    [][/\ last_id' >= last_id
       /\ \A i, j \in 1..Len(fs') : i < j => WrittenSeq(fs'[i]) # WrittenSeq(fs'[j])]_vars

\* C5 as stated: in every file written the start-time field of {@BTEST
\* (field 4) and that of {@BATCH (field 8) are both start_time.
C5_BtestStartIsBatchStart ==
    \A k \in 1..Len(fs) :
        /\ LineOf(fs[k].text, "{@BTEST")[4] = start_time
        /\ LineOf(fs[k].text, "{@BATCH")[8] = start_time

\* C5 amended: every file, when it is written, has in the start-time field
\* of {@BTEST (field 4) last_export rendered to the second, which is the
\* construction time in the first cycle and the time the previous cycle
\* completed afterwards, and in the start-time field of {@BATCH (field 8)
\* start_time, which never changes.
C5_BtestStartIsLastExport ==
    [][/\ start_time' = start_time
       /\ (fs' # fs) =>
            /\ LineOf(fs'[Len(fs')].text, "{@BTEST")[4] = last_export \div TicksPerSec
            /\ LineOf(fs'[Len(fs')].text, "{@BATCH")[8] = start_time]_vars

\* C5 witness: a file of a later cycle, whose {@BTEST start time is
\* seconds past the {@BATCH start time
C5_Witness ==
    \E k \in 1..Len(fs) :
        LineOf(fs[k].text, "{@BTEST")[4] > LineOf(fs[k].text, "{@BATCH")[8] + 1

\* C6: when a write fails the process is dead with no further file
\* written and last_export and last_id as they were; a dead process does
\* nothing more; the loop of save_results is left for update_fields only
\* with the files of positions 1..panels written, all under the firing
\* time; and last_export and last_id change in update_fields alone.
C6_WriteFailureEndsRun ==
    [][/\ (pc = "write" /\ pc' = "dead") => UNCHANGED <<fs, last_export, last_id>>
       /\ (pc = "dead") =>
            (pc' = "dead" /\ UNCHANGED <<fs, last_export, last_id, multiboard>>)
       /\ (pc' = "update_fields" /\ pc # "update_fields") =>
            /\ bi' = panels
            /\ Len(fs') >= panels
            /\ \A p \in 1..panels :
                   /\ FromDigits(fs'[Len(fs') - panels + p].path[1]) = p
                   /\ fs'[Len(fs') - panels + p].path[3] = save_now \div TicksPerSec
       /\ (last_id' # last_id \/ last_export' # last_export) =>
            pc = "update_fields"]_vars

\* C6 witness: the process died in the loop with some boards of the cycle
\* written and others not
C6_Witness ==
    /\ pc = "dead"
    /\ 0 < bi
    /\ bi < Len(multiboard.boards)
    /\ Len(fs) = bi
    /\ last_id = 1

\* C7: the status in the {@BTEST record of a board's file (field 3) is
\* "01" exactly if one of the board's results has ok = FALSE and "00"
\* exactly if all have ok = TRUE; with a yield of 0 and a test in the
\* catalog it is "01".
C7_BoardStatus ==
    \A k \in 1..Len(fs) :
        LET st == LineOf(fs[k].text, "{@BTEST")[3]
            rs == multiboard.boards[k].results
        IN  /\ (st = "01") <=> (\E i \in 1..Len(rs) : ~rs[i].ok)
            /\ (st = "00") <=> (\A i \in 1..Len(rs) : rs[i].ok)
            /\ (test_yield = 0 /\ Len(tests) > 0) => (st = "01")

\* C7 witness: a board written with status "01" whose first test passed
\* and whose second failed
C7_Witness ==
    /\ Len(fs) = 1
    /\ Len(multiboard.boards[1].results) = 2
    /\ multiboard.boards[1].results[1].ok
    /\ ~multiboard.boards[1].results[2].ok
    /\ LineOf(fs[1].text, "{@BTEST")[3] = "01"

\* the limits and results of the analog tests of the panel are as P says
AnalogResults(P(_, _, _, _)) ==
    \A b \in 1..Len(multiboard.boards) : \A k \in 1..Len(tests) :
        LET r == multiboard.boards[b].results[k]
            t == tests[k].ttype
        IN  IF t.kind = "Pin" THEN r.measured = 0
            ELSE P(r.ok, r.measured, t.min, t.max)

\* C8 as stated: a passing analog result is strictly inside (min, max)
StrictlyInside(ok, m, min, max) ==
    /\ min < max
    /\ ok => (min < m /\ m < max)
    /\ ~ok => (0 <= m /\ m < min)

\* C8 amended: a passing analog result is in [min, max)
InsideHalfOpen(ok, m, min, max) ==
    /\ min < max
    /\ ok => (min <= m /\ m < max)
    /\ ~ok => (0 <= m /\ m < min)

\* C8 as stated: every passing analog result has min < measured < max,
\* every failing one 0 <= measured < min, every pin result measured = 0.
C8_PassStrictlyInside == AnalogResults(StrictlyInside)

\* C8 amended: every passing analog result has min <= measured < max,
\* every failing one 0 <= measured < min, every pin result measured = 0.
C8_PassInHalfOpenRange == AnalogResults(InsideHalfOpen)

\* C8 witness: a passing analog result at the lower limit
C8_Witness ==
    \E k \in 1..Len(tests) :
        /\ Len(multiboard.boards) = 1
        /\ tests[k].ttype.kind = "Capacitor"
        /\ multiboard.boards[1].results[k].ok
        /\ multiboard.boards[1].results[k].measured = tests[k].ttype.min

\* lines a test's block takes
BlockSize(test) == IF test.ttype.kind = "Pin" THEN 2 ELSE 3

RECURSIVE BlockStart(_, _)
\* the line at which the block of the j-th test starts
BlockStart(ts, j) ==
    IF j = 1 THEN 3 ELSE BlockStart(ts, j - 1) + BlockSize(ts[j - 1])

\* a line that is a closing brace and nothing else
IsClose(line) == Len(line) = 1 /\ line[1] = "}"

\* the text is lines joined by "\n" with none at the end: one {@BATCH, one
\* {@BTEST, the block of each test of ts in order, each closed by its own
\* "}", and "}}" last
WellFormedLog(text, ts) ==
    LET L == LinesOf(text)
        heads(h) == {k \in 1..Len(L) : L[k][1] = h}
    IN  /\ Len(text) % 2 = 1
        /\ \A k \in 1..Len(text) : (text[k][1] = "\n") <=> (k % 2 = 0)
        /\ Len(L) = BlockStart(ts, Len(ts) + 1)
        /\ heads("{@BATCH") = {1}
        /\ heads("{@BTEST") = {2}
        /\ Len(L[Len(L)]) = 1 /\ L[Len(L)][1] = "}}"
        /\ heads("}}") = {Len(L)}
        /\ Cardinality(heads("{@PF") \cup heads("{@BLOCK")) = Len(ts)
        /\ Cardinality(heads("}")) = Len(ts)
        /\ \A j \in 1..Len(ts) :
            LET o == BlockStart(ts, j)
            IN  IF ts[j].ttype.kind = "Pin"
                THEN L[o][1] = "{@PF" /\ IsClose(L[o + 1])
                ELSE /\ L[o][1] = "{@BLOCK"
                     /\ L[o][2][3] = ts[j].name
                     /\ L[o + 1][1] =
                            (IF ts[j].ttype.kind = "Capacitor" THEN "{@A-CAP" ELSE "{@A-RES")
                     /\ IsClose(L[o + 2])

\* C9: every file written holds one {@BATCH record, then one {@BTEST
\* record, then a block per test in catalog order, each {@PF or {@BLOCK
\* followed by its own closing "}", then "}}", with "\n" between the
\* records and none after the last.
C9_LogWellFormed ==
    \A k \in 1..Len(fs) : WellFormedLog(fs[k].text, tests)

\* C9 witness: a written log with a pin block followed by an analog block
C9_Witness ==
    /\ Len(fs) = 1
    /\ Len(tests) = 2
    /\ LinesOf(fs[1].text)[3][1] = "{@PF"
    /\ LinesOf(fs[1].text)[5][1] = "{@BLOCK"

====
